---- MODULE Spec2Model ----
(***************************************************************************)
(* pr2cursor: the comment normalization pipeline of src/src/normalize.ts   *)
(* (normalizeAll and the functions it calls) and the inline-thread adapter *)
(* of src/src/gh.ts that feeds it.                                         *)
(*                                                                         *)
(* Representation.                                                         *)
(*  - A string is a sequence of characters (one-character TLA+ strings),   *)
(*    so toLowerCase, endsWith, includes and trim are computed.            *)
(*  - An optional value (null / undefined in the source) is a sequence of  *)
(*    length 0 (absent) or 1 (present).                                    *)
(*  - A timestamp string is modelled by the instant it denotes: the number *)
(*    new Date(s).getTime() returns.  GitHub timestamps are ISO-8601 UTC   *)
(*    strings after the epoch, so instants are drawn from 1..MaxTime and   *)
(*    the value 0 only arises as the sort key of an absent timestamp.      *)
(***************************************************************************)
EXTENDS Integers, Sequences, FiniteSets, TLC

\* prAuthor, reviews, issueComments and inlineComments are what the three gh
\* commands answer; fetchStatus is the state of the three promises of main;
\* pc is main's position; authorLastActivity and comments are what
\* normalizeAll returned.
VARIABLES prAuthor, reviews, issueComments, inlineComments,
          fetchStatus, pc, authorLastActivity, comments

vars == <<prAuthor, reviews, issueComments, inlineComments,
          fetchStatus, pc, authorLastActivity, comments>>

(***************************************************************************)
(* Optional values and strings                                             *)
(***************************************************************************)
None == <<>>

Some(x) == <<x>>

IsSome(o) == Len(o) > 0

\* JavaScript truthiness of an optional string: null, undefined and "" are falsy.
Truthy(o) == IsSome(o) /\ Len(o[1]) > 0

UpperChars == <<"A","B","C","D","E","F","G","H","I","J","K","L","M",
                "N","O","P","Q","R","S","T","U","V","W","X","Y","Z">>

LowerChars == <<"a","b","c","d","e","f","g","h","i","j","k","l","m",
                "n","o","p","q","r","s","t","u","v","w","x","y","z">>

\* String.prototype.toLowerCase on one character.
LowerOf ==
  [c \in {UpperChars[k] : k \in DOMAIN UpperChars} |->
     LowerChars[CHOOSE k \in DOMAIN UpperChars : UpperChars[k] = c]]

toLowerCase(s) ==
  [i \in DOMAIN s |-> IF s[i] \in DOMAIN LowerOf THEN LowerOf[s[i]] ELSE s[i]]

endsWith(s, suffix) ==
  /\ Len(suffix) <= Len(s)
  /\ SubSeq(s, Len(s) - Len(suffix) + 1, Len(s)) = suffix

includes(s, pattern) ==
  \E i \in 1..(Len(s) - Len(pattern) + 1) :
     SubSeq(s, i, i + Len(pattern) - 1) = pattern

WhiteSpace == {" ", "\t", "\n"}

RECURSIVE trimStart(_)
trimStart(s) ==
  IF Len(s) > 0 /\ Head(s) \in WhiteSpace THEN trimStart(Tail(s)) ELSE s

RECURSIVE trimEnd(_)
trimEnd(s) ==
  IF Len(s) > 0 /\ s[Len(s)] \in WhiteSpace
    THEN trimEnd(SubSeq(s, 1, Len(s) - 1))
    ELSE s

trim(s) == trimEnd(trimStart(s))

(***************************************************************************)
(* Bot detection                                                           *)
(***************************************************************************)
BOT_AUTHOR_PATTERNS ==
  << <<"g","i","t","h","u","b","-","a","c","t","i","o","n","s">>,
     <<"s","o","n","a","r">>,
     <<"s","o","n","a","r","c","l","o","u","d">>,
     <<"s","o","n","a","r","q","u","b","e">>,
     <<"d","e","p","e","n","d","a","b","o","t">>,
     <<"r","e","n","o","v","a","t","e">>,
     <<"c","o","d","e","c","o","v">>,
     <<"v","e","r","c","e","l">>,
     <<"n","e","t","l","i","f","y">>,
     <<"c","i","r","c","l","e","c","i">>,
     <<"t","r","a","v","i","s","c","i">>,
     <<"s","i","z","e","b","o","t">>,
     <<"[","b","o","t","]">>,
     <<"-","b","o","t">>,
     <<"b","o","t","-">> >>

endsWithBot(author) == endsWith(toLowerCase(author), <<"b","o","t">>)

isLikelyBot(author) ==
  LET authorLower == toLowerCase(author)
  IN  \/ endsWithBot(author)
      \/ \E p \in DOMAIN BOT_AUTHOR_PATTERNS :
           includes(authorLower, BOT_AUTHOR_PATTERNS[p])

(***************************************************************************)
(* Dates.  new Date(iso) of a present timestamp is its instant; two Dates  *)
(* compare by instant.                                                     *)
(***************************************************************************)
DateOf(ts) == ts[1]

\* The comparator key of the final sort: a.createdAt ? getTime() : 0.
sortKey(c) == IF IsSome(c.createdAt) THEN DateOf(c.createdAt) ELSE 0

(***************************************************************************)
(* Find PR author's last activity timestamp                                *)
(***************************************************************************)
\* A faulty variant: the PR author's message seen last is taken for the latest.
trackActivityLastSeen(lastActivity, login, createdAt, author) ==
  IF login = Some(author) /\ IsSome(createdAt)
    THEN Some(DateOf(createdAt))
    ELSE lastActivity

\* One step of either loop: lastActivity after seeing a message of `login`
\* created at `createdAt`.
trackActivity(lastActivity, login, createdAt, author) ==
  IF login = Some(author) /\ IsSome(createdAt)
       /\ (~IsSome(lastActivity) \/ DateOf(createdAt) > DateOf(lastActivity))
    THEN Some(DateOf(createdAt))
    ELSE lastActivity

RECURSIVE scanIssueComments(_, _, _, _)
scanIssueComments(author, cs, i, lastActivity) ==
  IF i > Len(cs) THEN lastActivity
  ELSE scanIssueComments(author, cs, i + 1,
         trackActivity(lastActivity, cs[i].user, cs[i].created_at, author))

RECURSIVE scanThreadComments(_, _, _, _)
scanThreadComments(author, ms, j, lastActivity) ==
  IF j > Len(ms) THEN lastActivity
  ELSE scanThreadComments(author, ms, j + 1,
         trackActivity(lastActivity, Some(ms[j].author), ms[j].createdAt, author))

RECURSIVE scanThreads(_, _, _, _)
scanThreads(author, threads, i, lastActivity) ==
  IF i > Len(threads) THEN lastActivity
  ELSE scanThreads(author, threads, i + 1,
         scanThreadComments(author, threads[i].comments, 1, lastActivity))

\* A faulty variant: only the conversation is scanned for the author's activity.
findAuthorLastActivityInConversation(author, cs, threads) ==
  scanIssueComments(author, cs, 1, None)

findAuthorLastActivity(author, cs, threads) ==
  scanThreads(author, threads, 1, scanIssueComments(author, cs, 1, None))

(***************************************************************************)
(* Normalize review bodies                                                 *)
(***************************************************************************)
PR_URL == <<"p","r">>

\* A faulty variant: a verdict without a submission timestamp counts as
\* submitted at the epoch and is cleared by any boundary.
reviewClearedUndated(review, lastActivity) ==
  /\ IsSome(lastActivity)
  /\ (~IsSome(review.submittedAt)
        \/ DateOf(review.submittedAt) <= DateOf(lastActivity))

\* Lines 97-101: the review is at or before the author's last activity.
reviewCleared(review, lastActivity) ==
  /\ IsSome(lastActivity)
  /\ IsSome(review.submittedAt)
  /\ DateOf(review.submittedAt) <= DateOf(lastActivity)

\* A faulty variant: the review normalizer forgets the PR author's own verdicts.
reviewPassesSelf(review, author, lastActivity) ==
  /\ IsSome(review.author)
  /\ ~isLikelyBot(review.author[1])
  /\ ~reviewCleared(review, lastActivity)

\* A faulty variant: the emptiness rules of lines 116-117 are applied before the
\* verdicts are grouped, so a verdict that would not be emitted never replaces
\* an earlier one.
reviewPassesEmitted(review, author, lastActivity) ==
  /\ IsSome(review.author)
  /\ ~isLikelyBot(review.author[1])
  /\ review.author[1] # author
  /\ ~reviewCleared(review, lastActivity)
  /\ \/ (Truthy(review.body) /\ Len(trim(review.body[1])) > 0)
     \/ review.state = "CHANGES_REQUESTED"

\* Lines 94-101: the filters a review passes before it is grouped.
reviewPasses(review, author, lastActivity) ==
  /\ IsSome(review.author)
  /\ ~isLikelyBot(review.author[1])
  /\ review.author[1] # author
  /\ ~reviewCleared(review, lastActivity)

\* A faulty variant: the last verdict in input order wins.
replacesExistingAlways(review, existing) == TRUE

\* Lines 104-106: the review replaces the entry `existing` of latestByAuthor
\* (None when the reviewer has no entry yet).
replacesExisting(review, existing) ==
  \/ ~IsSome(existing)
  \/ /\ IsSome(review.submittedAt)
     /\ IsSome(existing[1].submittedAt)
     /\ DateOf(review.submittedAt) > DateOf(existing[1].submittedAt)

\* latestByAuthor is a Map: a sequence of [key, value] entries in the order
\* the keys were first set.
mapIndex(map, key) ==
  IF \E k \in DOMAIN map : map[k].key = key
    THEN CHOOSE k \in DOMAIN map : map[k].key = key
    ELSE 0

mapGet(map, key) ==
  IF mapIndex(map, key) = 0 THEN None ELSE Some(map[mapIndex(map, key)].value)

mapSet(map, key, value) ==
  IF mapIndex(map, key) = 0
    THEN Append(map, [key |-> key, value |-> value])
    ELSE [map EXCEPT ![mapIndex(map, key)].value = value]

RECURSIVE latestByAuthor(_, _, _, _, _)
latestByAuthor(rs, author, lastActivity, i, map) ==
  IF i > Len(rs) THEN map
  ELSE latestByAuthor(rs, author, lastActivity, i + 1,
         IF /\ reviewPasses(rs[i], author, lastActivity)
            /\ replacesExisting(rs[i], mapGet(map, rs[i].author[1]))
           THEN mapSet(map, rs[i].author[1], rs[i])
           ELSE map)

hasBody(review) == Truthy(review.body) /\ Len(trim(review.body[1])) > 0

\* A faulty variant: only the bare approval is discarded.
reviewEmittedUnlessApproval(review) ==
  ~(review.state = "APPROVED" /\ ~hasBody(review))

\* Lines 112-117: the kept review is emitted.
reviewEmitted(review) ==
  /\ ~(review.state = "APPROVED" /\ ~hasBody(review))
  /\ ~(~hasBody(review) /\ review.state # "CHANGES_REQUESTED")

\* Lines 119-131.
reviewComment(author, review) ==
  [ id         |-> <<"r","e","v","i","e","w","-">> \o author,
    kind       |-> "review_body",
    author     |-> author,
    createdAt  |-> review.submittedAt,
    state      |-> Some(review.state),
    filePath   |-> None,
    line       |-> None,
    isResolved |-> None,
    body       |-> IF Truthy(review.body) THEN review.body[1]
                   ELSE <<"[", review.state, "]">>,
    url        |-> Some(PR_URL),
    isBot      |-> FALSE ]

RECURSIVE emitReviews(_, _)
emitReviews(map, k) ==
  IF k > Len(map) THEN <<>>
  ELSE (IF reviewEmitted(map[k].value)
          THEN <<reviewComment(map[k].key, map[k].value)>>
          ELSE <<>>)
       \o emitReviews(map, k + 1)

normalizeReviews(rs, author, lastActivity) ==
  emitReviews(latestByAuthor(rs, author, lastActivity, 1, <<>>), 1)

(***************************************************************************)
(* Normalize issue comments                                                *)
(***************************************************************************)
Digits == <<"0","1","2","3","4","5","6","7","8","9">>

\* `${n}` of a non-negative integer: its decimal digits.
RECURSIVE numberToString(_)
numberToString(n) ==
  IF n < 10 THEN <<Digits[n + 1]>>
  ELSE numberToString(n \div 10) \o <<Digits[(n % 10) + 1]>>

\* comment.body || ""
bodyOrEmpty(body) == IF Truthy(body) THEN body[1] ELSE <<>>

\* A faulty variant: a comment at the boundary survives.
commentClearedBefore(comment, lastActivity) ==
  /\ IsSome(lastActivity)
  /\ IsSome(comment.created_at)
  /\ DateOf(comment.created_at) < DateOf(lastActivity)

\* Lines 158-162: the comment is at or before the author's last activity.
commentCleared(comment, lastActivity) ==
  /\ IsSome(lastActivity)
  /\ IsSome(comment.created_at)
  /\ DateOf(comment.created_at) <= DateOf(lastActivity)

\* A faulty variant: the conversation normalizer forgets the bot filter.
issueCommentKeptBots(comment, author, lastActivity) ==
  /\ IsSome(comment.user)
  /\ Len(trim(bodyOrEmpty(comment.body))) > 0
  /\ comment.user[1] # author
  /\ ~commentCleared(comment, lastActivity)

\* Lines 149-162: the comment survives every `continue`.
issueCommentKept(comment, author, lastActivity) ==
  /\ IsSome(comment.user)
  /\ Len(trim(bodyOrEmpty(comment.body))) > 0
  /\ ~isLikelyBot(comment.user[1])
  /\ comment.user[1] # author
  /\ ~commentCleared(comment, lastActivity)

\* Lines 164-176.
issueComment(comment) ==
  [ id         |-> <<"c","o","m","m","e","n","t","-">> \o numberToString(comment.id),
    kind       |-> "pr_comment",
    author     |-> comment.user[1],
    createdAt  |-> comment.created_at,
    state      |-> None,
    filePath   |-> None,
    line       |-> None,
    isResolved |-> None,
    body       |-> bodyOrEmpty(comment.body),
    url        |-> Some(comment.html_url),
    isBot      |-> FALSE ]

RECURSIVE normalizeIssueCommentsFrom(_, _, _, _)
normalizeIssueCommentsFrom(cs, author, lastActivity, i) ==
  IF i > Len(cs) THEN <<>>
  ELSE (IF issueCommentKept(cs[i], author, lastActivity)
          THEN <<issueComment(cs[i])>>
          ELSE <<>>)
       \o normalizeIssueCommentsFrom(cs, author, lastActivity, i + 1)

normalizeIssueComments(cs, author, lastActivity) ==
  normalizeIssueCommentsFrom(cs, author, lastActivity, 1)

(***************************************************************************)
(* Normalize inline comments                                               *)
(***************************************************************************)
\* Array.prototype.filter, by a set of accepted elements' indices.
RECURSIVE filterIdx(_, _, _)
filterIdx(ms, keep, j) ==
  IF j > Len(ms) THEN <<>>
  ELSE (IF j \in keep THEN <<ms[j]>> ELSE <<>>) \o filterIdx(ms, keep, j + 1)

\* A faulty variant: outdated threads are not skipped.
threadSkippedResolvedOnly(thread) == thread.isResolved

\* Lines 194-197.
threadSkipped(thread) == thread.isResolved \/ thread.isOutdated

\* A faulty variant: any message in the thread counts as a reply of the author.
authorRepliedAny(thread, author) == Len(thread.comments) > 0

\* Line 200.
authorReplied(thread, author) ==
  \E j \in DOMAIN thread.comments : thread.comments[j].author = author

\* Lines 203-207.
reviewerComments(thread, author) ==
  filterIdx(thread.comments,
            {j \in DOMAIN thread.comments :
               /\ ~isLikelyBot(thread.comments[j].author)
               /\ thread.comments[j].author # author},
            1)

\* Lines 213-215: the date of the last of the author's comments in the thread.
lastAuthorDate(thread, author) ==
  LET authorComments ==
        filterIdx(thread.comments,
                  {j \in DOMAIN thread.comments : thread.comments[j].author = author},
                  1)
  IN  DateOf(authorComments[Len(authorComments)].createdAt)

\* Lines 212-215 read lastAuthorReply.createdAt: a TypeError when the thread
\* passed the tests of lines 194-211 and authorComments is empty, its last
\* element being undefined.
normalizeThreadRaises(thread, author) ==
  /\ ~threadSkipped(thread)
  /\ Len(reviewerComments(thread, author)) # 0
  /\ authorReplied(thread, author)
  /\ Len(filterIdx(thread.comments,
                   {j \in DOMAIN thread.comments : thread.comments[j].author = author},
                   1)) = 0

\* A faulty variant: a reviewer message at the instant of the author's reply counts as new.
newCommentsAtOrAfter(thread, author) ==
  LET rc == reviewerComments(thread, author)
  IN  filterIdx(rc,
                {j \in DOMAIN rc : DateOf(rc[j].createdAt) >= lastAuthorDate(thread, author)},
                1)

\* Lines 218-220.
newComments(thread, author) ==
  LET rc == reviewerComments(thread, author)
  IN  filterIdx(rc,
                {j \in DOMAIN rc : DateOf(rc[j].createdAt) > lastAuthorDate(thread, author)},
                1)

\* A faulty variant: the original line is preferred to the current line.
threadLineOriginalFirst(thread) ==
  IF IsSome(thread.originalLine) THEN thread.originalLine ELSE thread.line

\* thread.line ?? thread.originalLine ?? undefined
threadLine(thread) == IF IsSome(thread.line) THEN thread.line ELSE thread.originalLine

\* A faulty variant: the inline comment's identifier is built with the prefix
\* of the conversation comments.
inlineCommentAsComment(thread, latestComment) ==
  [ id         |-> <<"c","o","m","m","e","n","t","-">> \o latestComment.id,
    kind       |-> "inline_comment",
    author     |-> latestComment.author,
    createdAt  |-> latestComment.createdAt,
    state      |-> None,
    filePath   |-> Some(thread.path),
    line       |-> threadLine(thread),
    isResolved |-> Some(FALSE),
    body       |-> latestComment.body,
    url        |-> Some(latestComment.url),
    isBot      |-> FALSE ]

\* Lines 226-238 and 242-254.
inlineComment(thread, latestComment) ==
  [ id         |-> <<"i","n","l","i","n","e","-">> \o latestComment.id,
    kind       |-> "inline_comment",
    author     |-> latestComment.author,
    createdAt  |-> latestComment.createdAt,
    state      |-> None,
    filePath   |-> Some(thread.path),
    line       |-> threadLine(thread),
    isResolved |-> Some(FALSE),
    body       |-> latestComment.body,
    url        |-> Some(latestComment.url),
    isBot      |-> FALSE ]

\* The body of the loop, lines 192-256: what one thread pushes to results.
normalizeThread(thread, author) ==
  IF threadSkipped(thread) THEN <<>>
  ELSE IF Len(reviewerComments(thread, author)) = 0 THEN <<>>
  ELSE IF authorReplied(thread, author)
    THEN LET nc == newComments(thread, author)
         IN  IF Len(nc) = 0 THEN <<>>
             ELSE <<inlineComment(thread, nc[Len(nc)])>>
    ELSE LET rc == reviewerComments(thread, author)
         IN  <<inlineComment(thread, rc[Len(rc)])>>

RECURSIVE normalizeInlineCommentsFrom(_, _, _)
normalizeInlineCommentsFrom(threads, author, i) ==
  IF i > Len(threads) THEN <<>>
  ELSE normalizeThread(threads[i], author)
       \o normalizeInlineCommentsFrom(threads, author, i + 1)

normalizeInlineComments(threads, author) ==
  normalizeInlineCommentsFrom(threads, author, 1)

(***************************************************************************)
(* Main normalization function                                             *)
(***************************************************************************)
\* Array.prototype.sort with the comparator aDate - bDate: a stable sort by
\* sortKey (an insertion sort that never moves an element past an equal one).
\* A faulty variant: the comparator's sign is lost, so nothing moves.
insertSortedUnordered(sorted, c) == Append(sorted, c)

\* A faulty variant: an element moves past the elements equal to it, so the
\* sort is not stable.
RECURSIVE insertSortedBeforeEqual(_, _)
insertSortedBeforeEqual(sorted, c) ==
  IF Len(sorted) = 0 THEN <<c>>
  ELSE IF sortKey(sorted[Len(sorted)]) - sortKey(c) < 0
    THEN Append(sorted, c)
    ELSE Append(insertSortedBeforeEqual(SubSeq(sorted, 1, Len(sorted) - 1), c),
                sorted[Len(sorted)])

RECURSIVE insertSorted(_, _)
insertSorted(sorted, c) ==
  IF Len(sorted) = 0 THEN <<c>>
  ELSE IF sortKey(sorted[Len(sorted)]) - sortKey(c) <= 0
    THEN Append(sorted, c)
    ELSE Append(insertSorted(SubSeq(sorted, 1, Len(sorted) - 1), c),
                sorted[Len(sorted)])

RECURSIVE sortByCreatedAt(_, _, _)
sortByCreatedAt(cs, i, sorted) ==
  IF i > Len(cs) THEN sorted
  ELSE sortByCreatedAt(cs, i + 1, insertSorted(sorted, cs[i]))

\* A faulty variant: the inline comments pass through the global boundary of
\* the other two normalizers as well.
allCommentsGlobalBoundary(rs, cs, threads, author, lastActivity) ==
  LET afterBoundary(c) ==
        ~(IsSome(lastActivity) /\ IsSome(c.createdAt)
            /\ DateOf(c.createdAt) <= DateOf(lastActivity))
  IN  normalizeReviews(rs, author, lastActivity)
        \o normalizeIssueComments(cs, author, lastActivity)
        \o SelectSeq(normalizeInlineComments(threads, author), afterBoundary)

allComments(rs, cs, threads, author, lastActivity) ==
  normalizeReviews(rs, author, lastActivity)
    \o normalizeIssueComments(cs, author, lastActivity)
    \o normalizeInlineComments(threads, author)

\* The property reads of normalizeAll that can raise.  review.author.login and
\* comment.user.login follow the tests of lines 91 and 149, and optional
\* chaining guards the reads of lines 55; the read of lines 212-215 remains.
normalizeAllRaises(threads, author) ==
  \E i \in DOMAIN threads : normalizeThreadRaises(threads[i], author)

Sources == {"prView", "issueComments", "inlineComments"}

\* What main destructures from Promise.all for the inline threads:
\* getInlineComments resolves with [] after a failed query (gh.ts 210-218).
inlineCommentsValue ==
  IF fetchStatus["inlineComments"] = "degraded" THEN <<>> ELSE inlineComments

\* normalizeAll(prView, issueComments, inlineComments), run on the fetched
\* input; an exception leaves main through main().catch.
normalizeAll ==
  /\ pc = "fetched"
  /\ IF normalizeAllRaises(inlineCommentsValue, prAuthor)
       THEN /\ pc' = "threw"
            /\ UNCHANGED <<authorLastActivity, comments>>
       ELSE /\ authorLastActivity' =
                 findAuthorLastActivity(prAuthor, issueComments, inlineCommentsValue)
            /\ comments' = sortByCreatedAt(
                             allComments(reviews, issueComments, inlineCommentsValue,
                                         prAuthor,
                                         findAuthorLastActivity(prAuthor, issueComments,
                                                                inlineCommentsValue)),
                             1, <<>>)
            /\ pc' = "normalized"
  /\ UNCHANGED <<prAuthor, reviews, issueComments, inlineComments, fetchStatus>>

(***************************************************************************)
(* The inline-thread adapter: getInlineComments maps the GraphQL nodes     *)
(***************************************************************************)
unknown == <<"u","n","k","n","o","w","n">>

\* gh.ts lines 201-207: one comment node.
mapCommentNode(c) ==
  [ id        |-> c.id,
    author    |-> IF Truthy(c.author) THEN c.author[1] ELSE unknown,
    createdAt |-> c.createdAt,
    body      |-> IF Truthy(c.body) THEN c.body[1] ELSE <<>>,
    url       |-> c.url ]

\* gh.ts lines 188-209: one thread node.
mapThreadNode(t) ==
  [ path         |-> t.path,
    line         |-> t.line,
    originalLine |-> t.originalLine,
    isResolved   |-> t.isResolved,
    isOutdated   |-> t.isOutdated,
    comments     |-> [j \in DOMAIN t.comments |-> mapCommentNode(t.comments[j])] ]

getInlineComments(nodes) == [i \in DOMAIN nodes |-> mapThreadNode(nodes[i])]

(***************************************************************************)
(* main, steps 3 to 6: the three fetches of Promise.all, each settling on  *)
(* its own, then normalizeAll, renderPrompt and writeFile.  runGh throws   *)
(* when the gh command exits with a non-zero code (gh.ts 17-30).           *)
(***************************************************************************)
\* getPRView(prNumber, repo) settles: it has no handler for a failure of
\* runGh or of the schema, so its promise rejects (gh.ts 62-89).
getPRViewSettles ==
  /\ pc = "fetching"
  /\ fetchStatus["prView"] = "pending"
  /\ \E ok \in BOOLEAN :
       fetchStatus' = [fetchStatus EXCEPT
                         !["prView"] = IF ok THEN "resolved" ELSE "rejected"]
  /\ UNCHANGED <<prAuthor, reviews, issueComments, inlineComments,
                 pc, authorLastActivity, comments>>

\* getIssueComments(prNumber, repo) settles: no handler either (gh.ts 95-114).
getIssueCommentsSettles ==
  /\ pc = "fetching"
  /\ fetchStatus["issueComments"] = "pending"
  /\ \E ok \in BOOLEAN :
       fetchStatus' = [fetchStatus EXCEPT
                         !["issueComments"] = IF ok THEN "resolved" ELSE "rejected"]
  /\ UNCHANGED <<prAuthor, reviews, issueComments, inlineComments,
                 pc, authorLastActivity, comments>>

\* getInlineComments(prNumber, repo) settles: its catch block warns and
\* returns [] (gh.ts 153-219), so the promise resolves either way.
getInlineCommentsSettles ==
  /\ pc = "fetching"
  /\ fetchStatus["inlineComments"] = "pending"
  /\ \E ok \in BOOLEAN :
       fetchStatus' = [fetchStatus EXCEPT
                         !["inlineComments"] = IF ok THEN "resolved" ELSE "degraded"]
  /\ UNCHANGED <<prAuthor, reviews, issueComments, inlineComments,
                 pc, authorLastActivity, comments>>

\* A faulty variant: the first fetch to resolve lets main go on.
anyFulfilled == \E s \in Sources : fetchStatus[s] \in {"resolved", "degraded"}

\* Promise.all resolves when every promise has.
allFulfilled == \A s \in Sources : fetchStatus[s] \in {"resolved", "degraded"}

\* `await Promise.all([...])` returns (render.ts 293-306).
awaitPromiseAll ==
  /\ pc = "fetching"
  /\ allFulfilled
  /\ pc' = "fetched"
  /\ UNCHANGED <<prAuthor, reviews, issueComments, inlineComments,
                 fetchStatus, authorLastActivity, comments>>

\* Promise.all rejects with the first rejection; main rejects and
\* main().catch prints the error and calls process.exit(1) (render.ts 331-334).
mainCatch ==
  /\ pc = "fetching"
  /\ \E s \in Sources : fetchStatus[s] = "rejected"
  /\ pc' = "aborted"
  /\ UNCHANGED <<prAuthor, reviews, issueComments, inlineComments,
                 fetchStatus, authorLastActivity, comments>>

\* Steps 5 and 6: renderPrompt and writeFile (render.ts 315-321).
writeFile ==
  /\ pc = "normalized"
  /\ pc' = "written"
  /\ UNCHANGED <<prAuthor, reviews, issueComments, inlineComments,
                 fetchStatus, authorLastActivity, comments>>

(***************************************************************************)
(* Inputs                                                                  *)
(***************************************************************************)
MaxTime == 3

MaxRecords == 2

MaxOutputs == 4

MaxReviews == 2

MaxIssueComments == 3

MaxMessages == 3

Times == 1..MaxTime

alice == <<"a","l","i","c","e">>

dave == <<"d","a","v","e">>

carol == <<"c","a","r","o","l">>

\* A bot by its suffix only, once lower-cased.
mergeBot == <<"M","r","B","o","T">>

\* A bot by a pattern only, once lower-cased.
sonarApp == <<"S","o","n","a","r","X">>

fix == <<"f","i","x">>

blank == <<" ">>

FILE_PATH == <<"a",".","t","s">>

StampsOf(T) == {Some(t) : t \in T}

\* Review lists as z.array(ReviewSchema) parses them.
ReviewLists(n, authors, stamps, contents) ==
  { [i \in 1..n |-> [ author      |-> f[i].author,
                      state       |-> f[i].content.state,
                      submittedAt |-> f[i].submittedAt,
                      body        |-> f[i].content.body ]] :
      f \in [1..n -> [author : authors, submittedAt : stamps, content : contents]] }

ChangesRequested == [state |-> "CHANGES_REQUESTED", body |-> None]

Commented == [state |-> "COMMENTED", body |-> Some(fix)]

Approved == [state |-> "APPROVED", body |-> None]

ChangesRequestedBlank == [state |-> "CHANGES_REQUESTED", body |-> Some(blank)]

\* Conversation comments as z.array(IssueCommentSchema) parses them; the i-th
\* comment has GitHub's id i.
IssueCommentLists(n, users, stamps, bodies) ==
  { [i \in 1..n |-> [ user       |-> f[i].user,
                      created_at |-> f[i].created_at,
                      body       |-> f[i].body,
                      html_url   |-> <<"h">> \o numberToString(i),
                      id         |-> i ]] :
      f \in [1..n -> [user : users, created_at : stamps, body : bodies]] }

\* The node id of message j of thread i: unique per message.
nodeId(i, j) == <<"N">> \o numberToString(i) \o <<"_">> \o numberToString(j)

\* A thread's messages are in chronological order (GraphQL returns the replies
\* of a thread in creation order).
Chronological(f) ==
  \A j \in DOMAIN f : \A k \in DOMAIN f :
     j < k => DateOf(f[j].createdAt) <= DateOf(f[k].createdAt)

\* The comment nodes of thread i, n of them.
CommentNodeLists(i, n, authors, stamps, bodies) ==
  { [j \in 1..n |-> [ id        |-> nodeId(i, j),
                      author    |-> f[j].author,
                      createdAt |-> f[j].createdAt,
                      body      |-> f[j].body,
                      url       |-> <<"l">> \o nodeId(i, j) ]] :
      f \in { g \in [1..n -> [author : authors, createdAt : stamps, body : bodies]] :
                Chronological(g) } }

ThreadNodes(shapes, nodeLists) ==
  { [ path         |-> FILE_PATH,
      line         |-> sh.line,
      originalLine |-> sh.originalLine,
      isResolved   |-> sh.isResolved,
      isOutdated   |-> sh.isOutdated,
      comments     |-> ms ] : sh \in shapes, ms \in nodeLists }

\* An open thread on a line that has not moved.
OpenShape ==
  [line |-> Some(10), originalLine |-> Some(7), isResolved |-> FALSE, isOutdated |-> FALSE]

\* Open threads with every combination of line and original line, and the
\* resolved and outdated threads.
ThreadShapes ==
  [line : {None, Some(10)}, originalLine : {None, Some(7)},
   isResolved : {FALSE}, isOutdated : {FALSE}]
    \cup { [OpenShape EXCEPT !.isResolved = fl.r, !.isOutdated = fl.o] :
             fl \in [r : BOOLEAN, o : BOOLEAN] }

\* main after `await Promise.all`: the three fetches have resolved and
\* normalizeAll has not run.
Fetched ==
  /\ pc = "fetched"
  /\ fetchStatus = [s \in Sources |-> "resolved"]
  /\ authorLastActivity = None
  /\ comments = <<>>

\* The whole pipeline on a small PR: at most MaxRecords records in all, the
\* inline messages in one open thread.
Init ==
  /\ Fetched
  /\ prAuthor = alice
  /\ \E nr \in 0..MaxRecords : \E nc \in 0..(MaxRecords - nr) :
       \E nm \in 0..(MaxRecords - nr - nc) :
         /\ reviews \in ReviewLists(nr, {Some(alice), Some(dave), Some(mergeBot)},
                                    {None} \cup StampsOf(Times),
                                    {ChangesRequested, ChangesRequestedBlank, Commented})
         /\ issueComments \in IssueCommentLists(nc, {Some(alice), Some(dave), Some(sonarApp)},
                                                StampsOf(Times), {Some(blank), Some(fix)})
         /\ \E nodes \in IF nm = 0 THEN {<<>>}
                         ELSE { <<t>> : t \in ThreadNodes({OpenShape},
                                  CommentNodeLists(1, nm,
                                    {Some(alice), Some(dave), Some(mergeBot)},
                                    StampsOf(Times), {Some(<<>>), Some(fix)})) } :
              inlineComments = getInlineComments(nodes)

\* Ordering: every record is a reviewer's and passes the filters unless the
\* PR author's one conversation comment clears it; one message per thread.
InitOrder ==
  /\ Fetched
  /\ prAuthor = alice
  /\ \E nr \in 0..MaxOutputs : \E nc \in 0..(MaxOutputs - nr) :
       \E nt \in 0..(MaxOutputs - nr - nc) :
         /\ reviews \in ReviewLists(nr, {Some(dave), Some(carol)},
                                    {None} \cup StampsOf(Times), {ChangesRequested})
         /\ issueComments \in IssueCommentLists(nc, {Some(dave)}, StampsOf(Times),
                                                {Some(fix)})
         /\ \E f \in [1..nt -> Times] :
              inlineComments = getInlineComments(
                [i \in 1..nt |->
                   [ path |-> FILE_PATH, line |-> Some(10), originalLine |-> Some(7),
                     isResolved |-> FALSE, isOutdated |-> FALSE,
                     comments |-> << [ id |-> nodeId(i, 1), author |-> Some(dave),
                                       createdAt |-> Some(f[i]), body |-> Some(fix),
                                       url |-> <<"l">> \o nodeId(i, 1) ] >> ]])

\* The PR author's single conversation comment, or none: the boundary of the
\* review and thread inputs.
AuthorComment ==
  {<<>>} \cup IssueCommentLists(1, {Some(alice)}, StampsOf(Times), {Some(fix)})

\* Review verdicts: up to MaxReviews of them by the PR author and two reviewers.
InitReviews ==
  /\ Fetched
  /\ prAuthor = alice
  /\ \E nr \in 0..MaxReviews :
       reviews \in ReviewLists(nr, {Some(alice), Some(dave), Some(carol)},
                               {None} \cup StampsOf(Times),
                               {ChangesRequested, Commented, Approved})
  /\ issueComments \in AuthorComment
  /\ inlineComments = <<>>

\* A resolved thread holding one message of the PR author, or no thread.
AuthorThread ==
  {<<>>} \cup
  { <<t>> : t \in ThreadNodes({[OpenShape EXCEPT !.isResolved = TRUE]},
                              CommentNodeLists(1, 1, {Some(alice)}, StampsOf(Times),
                                               {Some(fix)})) }

\* Conversation comments: up to MaxIssueComments of them by the PR author and a
\* reviewer, beside the PR author's activity in an inline thread.
InitConversation ==
  /\ Fetched
  /\ prAuthor = alice
  /\ reviews = <<>>
  /\ \E nc \in 0..MaxIssueComments :
       issueComments \in IssueCommentLists(nc, {Some(alice), Some(dave)}, StampsOf(Times),
                                           {Some(blank), Some(fix)})
  /\ \E nodes \in AuthorThread : inlineComments = getInlineComments(nodes)

\* A second thread holding one reviewer message, or none.
ReviewerThread ==
  {<<>>} \cup
  { <<t>> : t \in ThreadNodes({OpenShape},
                              CommentNodeLists(2, 1, {Some(dave)}, StampsOf({1, MaxTime}),
                                               {Some(fix)})) }

\* One inline thread of any shape with up to MaxMessages messages by the PR
\* author, a reviewer, a bot and a deleted account, and a second thread or none.
InitThread ==
  /\ Fetched
  /\ prAuthor = alice
  /\ reviews = <<>>
  /\ issueComments = <<>>
  /\ \E nm \in 0..MaxMessages :
       \E t \in ThreadNodes(ThreadShapes,
                            CommentNodeLists(1, nm,
                              {None, Some(alice), Some(dave), Some(mergeBot)},
                              StampsOf(Times), {Some(fix)})) :
         \E more \in ReviewerThread :
           inlineComments = getInlineComments(<<t>> \o more)

\* The boundary step of the review normalizer: up to MaxReviews verdicts of one
\* reviewer, each requesting changes, with or without a submission timestamp,
\* beside up to MaxRecords conversation comments of the PR author and of a
\* second reviewer.
InitBoundary ==
  /\ Fetched
  /\ prAuthor = alice
  /\ \E nr \in 0..MaxReviews :
       reviews \in ReviewLists(nr, {Some(dave)}, {None} \cup StampsOf(Times),
                               {ChangesRequested})
  /\ \E nc \in 0..MaxRecords :
       issueComments \in IssueCommentLists(nc, {Some(alice), Some(carol)},
                                           StampsOf(Times), {Some(fix)})
  /\ inlineComments = <<>>

\* The PR author's activity: at most MaxIssueComments messages in all by the PR
\* author and a reviewer, spread over the conversation (in any order), a
\* resolved thread and a second thread that is outdated or open.
InitActivity ==
  /\ Fetched
  /\ prAuthor = alice
  /\ reviews = <<>>
  /\ \E nc \in 0..MaxIssueComments : \E n1 \in 0..(MaxIssueComments - nc) :
       \E n2 \in 0..(MaxIssueComments - nc - n1) :
         /\ issueComments \in IssueCommentLists(nc, {Some(alice), Some(dave)},
                                                StampsOf(Times), {Some(fix)})
         /\ \E t1 \in ThreadNodes({[OpenShape EXCEPT !.isResolved = TRUE]},
                        CommentNodeLists(1, n1, {Some(alice), Some(dave)},
                                         StampsOf(Times), {Some(fix)})) :
              \E t2 \in ThreadNodes({OpenShape, [OpenShape EXCEPT !.isOutdated = TRUE]},
                          CommentNodeLists(2, n2, {Some(alice), Some(dave)},
                                           StampsOf(Times), {Some(fix)})) :
                inlineComments = getInlineComments(<<t1, t2>>)

\* Two open threads, each with up to MaxRecords messages, thread A by the PR
\* author and a reviewer and thread B by the reviewer alone, beside the PR
\* author's conversation comment or none.
InitFrame ==
  /\ Fetched
  /\ prAuthor = alice
  /\ reviews = <<>>
  /\ issueComments \in AuthorComment
  /\ \E na \in 0..MaxRecords : \E nb \in 0..MaxRecords :
       \E ta \in ThreadNodes({OpenShape},
                    CommentNodeLists(1, na, {Some(alice), Some(dave)},
                                     StampsOf(Times), {Some(fix)})) :
         \E tb \in ThreadNodes({OpenShape},
                      CommentNodeLists(2, nb, {Some(dave)},
                                       StampsOf(Times), {Some(fix)})) :
           inlineComments = getInlineComments(<<ta, tb>>)

\* Reviewer logins that read as numbers.
NumericLogins == { numberToString(n) : n \in 1..2 }

\* Identifiers: at most MaxOutputs records in all, every one of which is
\* emitted.  The reviewers' logins, the conversation comments' ids and the
\* inline messages' node ids are the same numerals 1, 2, ...
InitIds ==
  /\ Fetched
  /\ prAuthor = alice
  /\ \E nr \in 0..MaxOutputs : \E nc \in 0..(MaxOutputs - nr) :
       \E nt \in 0..(MaxOutputs - nr - nc) :
         /\ reviews \in ReviewLists(nr, { Some(l) : l \in NumericLogins },
                                    StampsOf(Times), {ChangesRequested})
         /\ issueComments \in IssueCommentLists(nc, {Some(dave)}, StampsOf(Times),
                                                {Some(fix)})
         /\ \E f \in [1..nt -> Times] :
              inlineComments = getInlineComments(
                [i \in 1..nt |->
                   [ path |-> FILE_PATH, line |-> Some(10), originalLine |-> Some(7),
                     isResolved |-> FALSE, isOutdated |-> FALSE,
                     comments |-> << [ id |-> numberToString(i), author |-> Some(dave),
                                       createdAt |-> Some(f[i]), body |-> Some(fix),
                                       url |-> <<"l">> \o numberToString(i) ] >> ]])

\* Every state a verdict may have with every kind of body: absent, empty,
\* blank, text.
VerdictContents ==
  [state : {"APPROVED", "CHANGES_REQUESTED", "COMMENTED", "DISMISSED"},
   body : {None, Some(<<>>), Some(blank), Some(fix)}]

\* The emission step: up to MaxReviews timestamped verdicts of one reviewer and
\* no activity of the PR author.
InitVerdict ==
  /\ Fetched
  /\ prAuthor = alice
  /\ \E nr \in 0..MaxReviews :
       reviews \in ReviewLists(nr, {Some(dave)}, StampsOf(Times), VerdictContents)
  /\ issueComments = <<>>
  /\ inlineComments = <<>>

\* No thread, or one thread, open or resolved, with the given messages.
ThreadsWith(nodeLists) ==
  {<<>>} \cup
  { <<t>> : t \in ThreadNodes({OpenShape, [OpenShape EXCEPT !.isResolved = TRUE]},
                              nodeLists) }

\* Every shape a record may have: at most MaxRecords records in all, a review
\* without author, body or timestamp, a conversation comment without author or
\* body, an inline message of a deleted account or without body, a thread
\* without messages, and any source empty.
InitShapes ==
  /\ Fetched
  /\ prAuthor = alice
  /\ \E nr \in 0..MaxRecords : \E nc \in 0..(MaxRecords - nr) :
       \E nm \in 0..(MaxRecords - nr - nc) :
         /\ reviews \in ReviewLists(nr, {None, Some(dave)}, {None} \cup StampsOf(Times),
                                    {ChangesRequested, Commented})
         /\ issueComments \in IssueCommentLists(nc, {None, Some(dave)}, StampsOf(Times),
                                                {None, Some(fix)})
         /\ \E nodes \in ThreadsWith(CommentNodeLists(1, nm,
                                       {None, Some(alice), Some(dave)},
                                       StampsOf(Times), {None, Some(fix)})) :
              inlineComments = getInlineComments(nodes)

\* main at step 3, the three fetches started: a PR with at most one review,
\* one conversation comment and one thread of one message, all by a reviewer.
InitMain ==
  /\ pc = "fetching"
  /\ fetchStatus = [s \in Sources |-> "pending"]
  /\ authorLastActivity = None
  /\ comments = <<>>
  /\ prAuthor = alice
  /\ \E nr \in 0..1 :
       reviews \in ReviewLists(nr, {Some(dave)}, StampsOf(Times), {ChangesRequested})
  /\ \E nc \in 0..1 :
       issueComments \in IssueCommentLists(nc, {Some(dave)}, StampsOf(Times), {Some(fix)})
  /\ \E nm \in 0..1 :
       \E nodes \in ThreadsWith(CommentNodeLists(1, nm, {Some(dave)}, StampsOf(Times),
                                                 {Some(fix)})) :
         inlineComments = getInlineComments(nodes)

NextMain ==
  \/ getPRViewSettles
  \/ getIssueCommentsSettles
  \/ getInlineCommentsSettles
  \/ awaitPromiseAll
  \/ mainCatch
  \/ normalizeAll
  \/ writeFile

(***************************************************************************)
(* Re-runs on a conversation that grows: between two invocations a message *)
(* is appended, timestamped no earlier than the existing ones, and the     *)
(* next invocation fetches the grown conversation.                         *)
(***************************************************************************)
\* The latest instant of any record fetched so far, 0 when there is none.
LatestInstant ==
  LET stamps == { reviews[i].submittedAt[1] : i \in DOMAIN reviews }
                  \cup { issueComments[i].created_at[1] : i \in DOMAIN issueComments }
                  \cup UNION { { inlineComments[i].comments[j].createdAt[1] :
                                   j \in DOMAIN inlineComments[i].comments } :
                               i \in DOMAIN inlineComments }
  IN  IF stamps = {} THEN 0 ELSE CHOOSE t \in stamps : \A u \in stamps : u <= t

PostedRecords ==
  Len(reviews) + Len(issueComments)
    + (IF inlineComments = <<>> THEN 0 ELSE Len(inlineComments[1].comments))

\* A new process: main up to `await Promise.all`, on the grown conversation.
Refetched ==
  /\ pc \in {"fetched", "normalized"}
  /\ PostedRecords < MaxOutputs
  /\ pc' = "fetched"
  /\ authorLastActivity' = None
  /\ comments' = <<>>
  /\ UNCHANGED <<prAuthor, fetchStatus>>

\* The PR author or a reviewer adds a conversation comment.
postIssueComment ==
  /\ Refetched
  /\ \E user \in {alice, dave} : \E t \in Times :
       /\ t >= LatestInstant
       /\ issueComments' =
            Append(issueComments,
                   [ user       |-> Some(user),
                     created_at |-> Some(t),
                     body       |-> Some(fix),
                     html_url   |-> <<"h">> \o numberToString(Len(issueComments) + 1),
                     id         |-> Len(issueComments) + 1 ])
  /\ UNCHANGED <<reviews, inlineComments>>

\* The reviewer submits a verdict.
postReview ==
  /\ Refetched
  /\ \E t \in Times :
       /\ t >= LatestInstant
       /\ reviews' = Append(reviews,
                            [ author      |-> Some(dave),
                              state       |-> ChangesRequested.state,
                              submittedAt |-> Some(t),
                              body        |-> ChangesRequested.body ])
  /\ UNCHANGED <<issueComments, inlineComments>>

\* The PR author writes in the inline thread, opening it with the first message.
postInlineMessage ==
  /\ Refetched
  /\ \E t \in Times :
       /\ t >= LatestInstant
       /\ LET old == IF inlineComments = <<>> THEN <<>> ELSE inlineComments[1].comments
              msg == mapCommentNode(
                       [ id        |-> nodeId(1, Len(old) + 1),
                         author    |-> Some(alice),
                         createdAt |-> Some(t),
                         body      |-> Some(fix),
                         url       |-> <<"l">> \o nodeId(1, Len(old) + 1) ])
          IN  inlineComments' =
                << [ path |-> FILE_PATH, line |-> OpenShape.line,
                     originalLine |-> OpenShape.originalLine,
                     isResolved |-> FALSE, isOutdated |-> FALSE,
                     comments |-> Append(old, msg) ] >>
  /\ UNCHANGED <<reviews, issueComments>>

\* The first invocation, on a PR without any feedback yet.
InitGrow ==
  /\ Fetched
  /\ prAuthor = alice
  /\ reviews = <<>>
  /\ issueComments = <<>>
  /\ inlineComments = <<>>

NextGrow ==
  \/ normalizeAll
  \/ postIssueComment
  \/ postReview
  \/ postInlineMessage

Next == normalizeAll

Spec == Init /\ [][Next]_vars

SpecOrder == InitOrder /\ [][Next]_vars

SpecReviews == InitReviews /\ [][Next]_vars

SpecConversation == InitConversation /\ [][Next]_vars

SpecBoundary == InitBoundary /\ [][Next]_vars

SpecActivity == InitActivity /\ [][Next]_vars

SpecFrame == InitFrame /\ [][Next]_vars

SpecIds == InitIds /\ [][Next]_vars

SpecVerdict == InitVerdict /\ [][Next]_vars

SpecShapes == InitShapes /\ [][Next]_vars

SpecMain == InitMain /\ [][NextMain]_vars

SpecGrow == InitGrow /\ [][NextGrow]_vars

SpecThread == InitThread /\ [][Next]_vars

(***************************************************************************)
(* Properties                                                              *)
(***************************************************************************)
Done == pc = "normalized"

\* The messages of all inline threads, each with its thread's index.
InlineMessages ==
  UNION { { [thread |-> i, msg |-> inlineComments[i].comments[j]] :
              j \in DOMAIN inlineComments[i].comments } :
          i \in DOMAIN inlineComments }

\* C1 (self-comment exclusion): no comment in the output of normalizeAll is
\* authored by the PR author, whichever of the three streams it comes from.
C1_NoSelfComments ==
  Done => \A k \in DOMAIN comments : comments[k].author # prAuthor

\* C1's case: the PR author issued a verdict that requests changes, with no
\* boundary to clear it, and the output is not empty.
C1_Witness ==
  /\ Done
  /\ \E i \in DOMAIN reviews :
       /\ reviews[i].author = Some(prAuthor)
       /\ reviews[i].state = "CHANGES_REQUESTED"
  /\ authorLastActivity = None
  /\ Len(comments) > 0

\* C2 (bot exclusion): no comment in the output of normalizeAll has an author
\* that isLikelyBot classifies as a bot, in any of the three streams.
C2_NoBotComments ==
  Done => \A k \in DOMAIN comments : ~isLikelyBot(comments[k].author)

\* C2's case: a bot posted a conversation comment with a body after every
\* activity of the PR author, and the output is not empty.
C2_Witness ==
  /\ Done
  /\ \E i \in DOMAIN issueComments :
       /\ IsSome(issueComments[i].user)
       /\ isLikelyBot(issueComments[i].user[1])
       /\ issueComments[i].body = Some(fix)
  /\ authorLastActivity = None
  /\ Len(comments) > 0

\* C3 (non-empty body): every comment in the output of normalizeAll has a
\* non-empty body, for review summaries, conversation comments and inline
\* comments, also when an inline message's body is the empty string.
C3_NonEmptyBody ==
  Done => \A k \in DOMAIN comments : Len(comments[k].body) > 0

\* C4 (ordering): the output is non-decreasing in timestamp, a comment without
\* a timestamp counting as the earliest: of two comments the later in the
\* output has a timestamp no earlier, and none without a timestamp follows
\* one with a timestamp.
C4_SortedByTimestamp ==
  Done =>
    \A j \in DOMAIN comments : \A k \in DOMAIN comments :
      j < k =>
        /\ IsSome(comments[k].createdAt) \/ ~IsSome(comments[j].createdAt)
        /\ (IsSome(comments[j].createdAt) /\ IsSome(comments[k].createdAt))
             => comments[j].createdAt[1] <= comments[k].createdAt[1]

\* C4's case: the sort moved a comment, and the output holds a comment without
\* a timestamp and two with different timestamps.
C4_Witness ==
  /\ Done
  /\ comments # allComments(reviews, issueComments, inlineComments, prAuthor,
                            authorLastActivity)
  /\ \E j \in DOMAIN comments : ~IsSome(comments[j].createdAt)
  /\ \E j \in DOMAIN comments : \E k \in DOMAIN comments :
       /\ IsSome(comments[j].createdAt)
       /\ IsSome(comments[k].createdAt)
       /\ comments[j].createdAt # comments[k].createdAt
       /\ comments[j].kind # comments[k].kind

\* The reviewers that issued a verdict.
Reviewers ==
  { reviews[i].author[1] : i \in {r \in DOMAIN reviews : IsSome(reviews[r].author)} }

\* The verdicts of reviewer a that pass the author, bot and boundary filters,
\* the boundary being the one the run returned.
PassingVerdicts(a) ==
  { i \in DOMAIN reviews :
      /\ reviews[i].author = Some(a)
      /\ a # prAuthor
      /\ ~isLikelyBot(a)
      /\ ~(/\ authorLastActivity # None
           /\ reviews[i].submittedAt # None
           /\ reviews[i].submittedAt[1] <= authorLastActivity[1]) }

\* The review summaries of the output written for reviewer a.
ReviewSummaries(a) ==
  { k \in DOMAIN comments :
      comments[k].kind = "review_body" /\ comments[k].author = a }

\* Comment c carries verdict r: its state, its timestamp, and its body or,
\* for a verdict without body text, the placeholder naming its state.
Carries(c, r) ==
  /\ c.state = Some(r.state)
  /\ c.createdAt = r.submittedAt
  /\ c.body = IF r.body \in {None, Some(<<>>)} THEN <<"[", r.state, "]">> ELSE r.body[1]

\* C5 (latest verdict wins): a reviewer gets at most one review summary, and
\* when all the verdicts of the reviewer that pass the filters have a
\* timestamp (two verdicts with different timestamps in particular), the
\* summary carries a verdict with the latest timestamp, whatever the order of
\* the input list.
C5_LatestVerdictWins ==
  Done =>
    \A a \in Reviewers :
      /\ Cardinality(ReviewSummaries(a)) <= 1
      /\ (\A i \in PassingVerdicts(a) : reviews[i].submittedAt # None)
           => \A k \in ReviewSummaries(a) :
                \E j \in PassingVerdicts(a) :
                  /\ \A i \in PassingVerdicts(a) :
                       reviews[i].submittedAt[1] <= reviews[j].submittedAt[1]
                  /\ Carries(comments[k], reviews[j])

\* C5's case: a reviewer has two passing verdicts of different state, the
\* later one first in the input list, and a summary is written for the reviewer.
C5_Witness ==
  /\ Done
  /\ \E a \in Reviewers : \E i \in PassingVerdicts(a) : \E j \in PassingVerdicts(a) :
       /\ i < j
       /\ reviews[i].submittedAt # None
       /\ reviews[j].submittedAt # None
       /\ reviews[i].submittedAt[1] > reviews[j].submittedAt[1]
       /\ reviews[i].state # reviews[j].state
       /\ ReviewSummaries(a) # {}

\* C6 (a verdict without timestamp loses): when the passing verdicts of a
\* reviewer are one with a timestamp and one without, the summary written for
\* the reviewer carries the one with the timestamp, in either input order.
C6_UntimestampedLoses ==
  Done =>
    \A a \in Reviewers : \A i \in PassingVerdicts(a) : \A j \in PassingVerdicts(a) :
      (/\ PassingVerdicts(a) = {i, j}
       /\ reviews[i].submittedAt # None
       /\ reviews[j].submittedAt = None)
        => \A k \in ReviewSummaries(a) : Carries(comments[k], reviews[i])

InlineId(id) == <<"i","n","l","i","n","e","-">> \o id

\* The comments of the output written for a message of thread i.
ThreadComments(i) ==
  { k \in DOMAIN comments :
      /\ comments[k].kind = "inline_comment"
      /\ \E j \in DOMAIN inlineComments[i].comments :
           comments[k].id = InlineId(inlineComments[i].comments[j].id) }

\* The messages of thread i by a reviewer: neither a bot nor the PR author.
ReviewerMessages(i) ==
  { j \in DOMAIN inlineComments[i].comments :
      /\ ~isLikelyBot(inlineComments[i].comments[j].author)
      /\ inlineComments[i].comments[j].author # prAuthor }

\* The messages of thread i by the PR author.
AuthorMessages(i) ==
  { j \in DOMAIN inlineComments[i].comments :
      inlineComments[i].comments[j].author = prAuthor }

\* C7 (resolved and outdated threads are suppressed): a thread marked resolved
\* or marked outdated contributes no comment to the output.
C7_ResolvedOutdatedSuppressed ==
  Done =>
    \A i \in DOMAIN inlineComments :
      (inlineComments[i].isResolved \/ inlineComments[i].isOutdated)
        => ThreadComments(i) = {}

\* C7's case: an outdated, unresolved thread holds reviewer messages and none
\* of the PR author, while another thread does contribute.
C7_Witness ==
  /\ Done
  /\ \E i \in DOMAIN inlineComments :
       /\ inlineComments[i].isOutdated
       /\ ~inlineComments[i].isResolved
       /\ ReviewerMessages(i) # {}
       /\ AuthorMessages(i) = {}
  /\ Len(comments) > 0

\* The candidates of thread i: the reviewer messages, those after every
\* message of the PR author in the thread when there is one.
Candidates(i) ==
  { j \in ReviewerMessages(i) :
      \A q \in AuthorMessages(i) :
        inlineComments[i].comments[j].createdAt[1]
          > inlineComments[i].comments[q].createdAt[1] }

AuthorLatest(i) ==
  CHOOSE x \in { inlineComments[i].comments[q].createdAt[1] : q \in AuthorMessages(i) } :
    \A q \in AuthorMessages(i) : inlineComments[i].comments[q].createdAt[1] <= x

CommentId(n) == <<"c","o","m","m","e","n","t","-">> \o numberToString(n)

\* The instants at which the PR author posted a conversation comment or an
\* inline message, in whatever thread.
AuthorActivity ==
  { issueComments[i].created_at[1] :
      i \in {c \in DOMAIN issueComments : issueComments[c].user = Some(prAuthor)} }
    \cup { m.msg.createdAt[1] : m \in {x \in InlineMessages : x.msg.author = prAuthor} }

\* A body that is present and not blank.
HasText(body) ==
  /\ body # None
  /\ \E x \in DOMAIN body[1] : body[1][x] \notin WhiteSpace

\* C10 (boundary clearing): a conversation comment by a reviewer (neither a
\* bot nor the PR author) with a non-blank body is in the output exactly when
\* the PR author never posted or its timestamp is strictly after every
\* activity of the PR author: at the boundary it is excluded.
C10_BoundaryClearing ==
  Done =>
    \A i \in DOMAIN issueComments :
      (/\ issueComments[i].user # None
       /\ issueComments[i].user # Some(prAuthor)
       /\ ~isLikelyBot(issueComments[i].user[1])
       /\ HasText(issueComments[i].body))
        => ((\E k \in DOMAIN comments :
               /\ comments[k].kind = "pr_comment"
               /\ comments[k].id = CommentId(issueComments[i].id))
            <=> (\A t \in AuthorActivity : issueComments[i].created_at[1] > t))

\* C10's case: a reviewer comment at T1, the PR author's reply at T2 > T1, a
\* reviewer comment at T3 > T2: the output is the T3 comment alone.
C10_Witness ==
  /\ Done
  /\ Len(issueComments) = 3
  /\ issueComments[1].user = Some(dave) /\ issueComments[1].body = Some(fix)
  /\ issueComments[2].user = Some(prAuthor)
  /\ issueComments[3].user = Some(dave) /\ issueComments[3].body = Some(fix)
  /\ issueComments[1].created_at[1] < issueComments[2].created_at[1]
  /\ issueComments[2].created_at[1] < issueComments[3].created_at[1]
  /\ authorLastActivity = issueComments[2].created_at
  /\ Len(comments) = 1
  /\ comments[1].id = CommentId(issueComments[3].id)

\* A verdict the boundary step removes: the PR author has posted, the verdict
\* has a submission timestamp, and some activity of the PR author is at or
\* after it.
BoundaryRemoves(r) ==
  /\ AuthorActivity # {}
  /\ r.submittedAt # None
  /\ \E t \in AuthorActivity : r.submittedAt[1] <= t

\* C11 (boundary step of normalizeReviews): a verdict is removed by the
\* boundary exactly when a boundary exists and the verdict has a submission
\* timestamp at or before it; a verdict without a timestamp is never removed.
\* So a reviewer whose verdicts all request changes has a summary in the output
\* exactly when one of the verdicts is not removed, and the summary carries a
\* verdict that is not removed.  With a review at T1, the PR author's reply at
\* T2 > T1 and a second reviewer's comment at T3 > T2, the output is exactly
\* the second reviewer's comment.
C11_ReviewBoundary ==
  Done =>
    /\ \A a \in Reviewers :
         (/\ a # prAuthor
          /\ ~isLikelyBot(a)
          /\ \A i \in DOMAIN reviews :
               reviews[i].author = Some(a) => reviews[i].state = "CHANGES_REQUESTED")
           => /\ (ReviewSummaries(a) # {})
                   <=> (\E i \in DOMAIN reviews :
                          reviews[i].author = Some(a) /\ ~BoundaryRemoves(reviews[i]))
              /\ \A k \in ReviewSummaries(a) :
                   \E i \in DOMAIN reviews :
                     /\ reviews[i].author = Some(a)
                     /\ ~BoundaryRemoves(reviews[i])
                     /\ Carries(comments[k], reviews[i])
    /\ (/\ Len(reviews) = 1 /\ Len(issueComments) = 2 /\ inlineComments = <<>>
        /\ reviews[1].author \notin {None, Some(prAuthor)}
        /\ reviews[1].submittedAt # None
        /\ issueComments[1].user = Some(prAuthor)
        /\ issueComments[2].user \notin {None, Some(prAuthor)}
        /\ ~isLikelyBot(issueComments[2].user[1])
        /\ HasText(issueComments[2].body)
        /\ reviews[1].submittedAt[1] < issueComments[1].created_at[1]
        /\ issueComments[1].created_at[1] < issueComments[2].created_at[1])
         => /\ Len(comments) = 1
            /\ comments[1].id = CommentId(issueComments[2].id)
            /\ comments[1].author = issueComments[2].user[1]

\* C11's case: the scenario itself, and beside it a verdict without a
\* timestamp that survives a boundary.
C11_Witness ==
  /\ Done
  /\ Len(reviews) = 1 /\ Len(issueComments) = 2
  /\ reviews[1].author = Some(dave) /\ reviews[1].submittedAt = Some(1)
  /\ issueComments[1].user = Some(alice) /\ issueComments[1].created_at = Some(2)
  /\ issueComments[2].user = Some(carol) /\ issueComments[2].created_at = Some(3)
  /\ authorLastActivity = Some(2)
  /\ Len(comments) = 1
  /\ comments[1].author = carol
  /\ comments[1].kind = "pr_comment"

\* A verdict without a submission timestamp is in the output although the PR
\* author has posted.
C11_UndatedWitness ==
  /\ Done
  /\ Len(reviews) = 1 /\ reviews[1].submittedAt = None
  /\ authorLastActivity # None
  /\ ReviewSummaries(dave) # {}

\* C12 (activity boundary): the boundary normalizeAll returns is none exactly
\* when the PR author has neither a conversation comment nor a message in any
\* inline thread, resolved and outdated threads included; otherwise it is the
\* latest instant at which the PR author posted one, in whatever order the
\* records appear.
C12_BoundaryIsLatestActivity ==
  Done =>
    /\ (authorLastActivity = None) <=> (AuthorActivity = {})
    /\ authorLastActivity # None =>
         /\ authorLastActivity[1] \in AuthorActivity
         /\ \A t \in AuthorActivity : t <= authorLastActivity[1]

\* C12's case: the PR author's conversation comments appear latest first, and
\* the latest activity of all is a message in a resolved thread, which no
\* later record of the scan exceeds.
C12_Witness ==
  /\ Done
  /\ Len(issueComments) = 2
  /\ issueComments[1].user = Some(prAuthor) /\ issueComments[2].user = Some(prAuthor)
  /\ issueComments[1].created_at[1] > issueComments[2].created_at[1]
  /\ inlineComments[1].isResolved
  /\ Len(inlineComments[1].comments) = 1
  /\ inlineComments[1].comments[1].author = prAuthor
  /\ inlineComments[1].comments[1].createdAt[1] > issueComments[1].created_at[1]
  /\ authorLastActivity = inlineComments[1].comments[1].createdAt

\* The inline comments of the output.
InlineOutputs == { k \in DOMAIN comments : comments[k].kind = "inline_comment" }

\* The open threads that have a candidate: what a thread contributes is read
\* from that thread and the PR author's login alone.
ContributingThreads ==
  { i \in DOMAIN inlineComments :
      /\ ~inlineComments[i].isResolved
      /\ ~inlineComments[i].isOutdated
      /\ Candidates(i) # {} }

\* C13 (no global boundary for inline threads): the inline comments of the
\* output are determined by the threads and the PR author's login.  Every
\* open thread with a reviewer message after the PR author's replies in that
\* same thread contributes its last such message, whatever the PR author posted
\* in the conversation or in another thread and however recently, and the
\* output holds no other inline comment.
C13_InlineIgnoresGlobalBoundary ==
  Done =>
    /\ Cardinality(InlineOutputs) = Cardinality(ContributingThreads)
    /\ \A i \in ContributingThreads :
         LET ms == inlineComments[i].comments
             last == CHOOSE j \in Candidates(i) : \A q \in Candidates(i) : q <= j
         IN  \E k \in InlineOutputs :
               /\ comments[k].id = InlineId(ms[last].id)
               /\ comments[k].author = ms[last].author
               /\ comments[k].createdAt = ms[last].createdAt
               /\ comments[k].body = ms[last].body

\* C13's case: the PR author posted in the conversation and in thread A at the
\* latest instant, after the reviewer's only message in thread B, and thread B
\* still contributes that message.
C13_Witness ==
  /\ Done
  /\ Len(issueComments) = 1
  /\ issueComments[1].user = Some(prAuthor)
  /\ issueComments[1].created_at = Some(MaxTime)
  /\ Len(inlineComments[1].comments) = 1
  /\ inlineComments[1].comments[1].author = prAuthor
  /\ inlineComments[1].comments[1].createdAt = Some(MaxTime)
  /\ Len(inlineComments[2].comments) = 1
  /\ inlineComments[2].comments[1].author = dave
  /\ inlineComments[2].comments[1].createdAt = Some(1)
  /\ authorLastActivity = Some(MaxTime)
  /\ Len(comments) = 1
  /\ comments[1].id = InlineId(inlineComments[2].comments[1].id)

\* The ids of the conversation comments are distinct among themselves, and so
\* are the node ids of the inline messages.
DistinctSourceIds ==
  /\ \A i, j \in DOMAIN issueComments :
       i # j => issueComments[i].id # issueComments[j].id
  /\ \A m, n \in InlineMessages : m # n => m.msg.id # n.msg.id

\* C14 (identifiers are unique): when the conversation comments' ids and the
\* inline messages' ids are distinct among themselves, no two comments of one
\* output have the same identifier, also when a reviewer's login, a
\* conversation comment's id and an inline message's id read the same.
C14_DistinctIdentifiers ==
  (Done /\ DistinctSourceIds) =>
    \A j \in DOMAIN comments : \A k \in DOMAIN comments :
      j # k => comments[j].id # comments[k].id

\* C14's case: a reviewer with login 1, the conversation comment with id 1 and
\* the inline message with node id 1 are all three in the output.
C14_Witness ==
  /\ Done
  /\ DistinctSourceIds
  /\ \E i \in DOMAIN reviews : reviews[i].author = Some(numberToString(1))
  /\ \E i \in DOMAIN issueComments : issueComments[i].id = 1
  /\ \E m \in InlineMessages : m.msg.id = numberToString(1)
  /\ \E j \in DOMAIN comments : \E k \in DOMAIN comments : \E q \in DOMAIN comments :
       /\ comments[j].kind = "review_body"
       /\ comments[j].id = <<"r","e","v","i","e","w","-","1">>
       /\ comments[k].kind = "pr_comment"
       /\ comments[k].id = <<"c","o","m","m","e","n","t","-","1">>
       /\ comments[q].kind = "inline_comment"
       /\ comments[q].id = <<"i","n","l","i","n","e","-","1">>

\* The verdict kept for reviewer a when one passing verdict is later than all
\* the others: that verdict.
LatestVerdict(a) ==
  { j \in PassingVerdicts(a) :
      /\ reviews[j].submittedAt # None
      /\ \A i \in PassingVerdicts(a) \ {j} :
           /\ reviews[i].submittedAt # None
           /\ reviews[i].submittedAt[1] < reviews[j].submittedAt[1] }

\* C20 (which kept verdicts are emitted): the verdict kept for a reviewer
\* yields a review summary exactly when it has body text or its state is
\* changes-requested; a bare approval and a commented or other verdict without
\* body text yield nothing.  The summary carries the kept verdict.
C20_EmittedVerdicts ==
  Done =>
    \A a \in Reviewers : \A j \in LatestVerdict(a) :
      /\ (ReviewSummaries(a) # {})
           <=> (HasText(reviews[j].body) \/ reviews[j].state = "CHANGES_REQUESTED")
      /\ \A k \in ReviewSummaries(a) : Carries(comments[k], reviews[j])

\* C20's case: the kept verdict requests changes with a blank body and is
\* emitted, the earlier bare approval is not.
C20_Witness ==
  /\ Done
  /\ Len(reviews) = 2
  /\ reviews[1].state = "APPROVED" /\ reviews[1].body = None
  /\ reviews[2].state = "CHANGES_REQUESTED" /\ reviews[2].body = Some(blank)
  /\ LatestVerdict(dave) = {2}
  /\ Len(comments) = 1
  /\ comments[1].state = Some("CHANGES_REQUESTED")

\* A kept verdict that only comments, without body text, yields nothing.
C20_DiscardedWitness ==
  /\ Done
  /\ Len(reviews) = 1
  /\ reviews[1].state = "COMMENTED" /\ reviews[1].body = Some(blank)
  /\ comments = <<>>

\* C16 (normalizeAll is total): on every input of the stated shapes no
\* property read raises, so the call ends by returning a sequence, of at most
\* one comment per review, conversation comment and thread.  With all three sources
\* empty it returns the empty sequence and no boundary.
C16_Total ==
  /\ pc \in {"fetched", "normalized"}
  /\ Done => Len(comments) <= Len(reviews) + Len(issueComments) + Len(inlineComments)
  /\ (Done /\ reviews = <<>> /\ issueComments = <<>> /\ inlineComments = <<>>)
       => (comments = <<>> /\ authorLastActivity = None)

\* C16's case: a review without author, body and timestamp, a conversation
\* comment without author and body and a thread without messages; the call
\* returned the empty sequence.
C16_Witness ==
  /\ Done
  /\ Len(reviews) = 1
  /\ reviews[1].author = None /\ reviews[1].body = None /\ reviews[1].submittedAt = None
  /\ Len(issueComments) = 1
  /\ issueComments[1].user = None /\ issueComments[1].body = None
  /\ Len(inlineComments) = 1
  /\ Len(inlineComments[1].comments) = 0
  /\ comments = <<>>

\* All three sources are empty and the call returned.
C16_EmptyWitness ==
  /\ Done
  /\ reviews = <<>> /\ issueComments = <<>> /\ inlineComments = <<>>
  /\ comments = <<>>
  /\ authorLastActivity = None

\* C17 (a failed fetch degrades to an empty record set): whichever fetch
\* fails, its promise does not reject and main does not abort.
C17_FetchFailureDegrades ==
  /\ \A s \in Sources : fetchStatus[s] # "rejected"
  /\ pc # "aborted"

\* The inline-thread fetch failed, and the output was written from the other
\* two sources.
C17_InlineDegrades ==
  /\ pc = "written"
  /\ fetchStatus["inlineComments"] = "degraded"
  /\ Len(inlineComments) = 1 /\ Len(inlineComments[1].comments) = 1
  /\ ~inlineComments[1].isResolved
  /\ Len(reviews) = 1 /\ Len(issueComments) = 1
  /\ Len(comments) = 2
  /\ \A k \in DOMAIN comments : comments[k].kind # "inline_comment"

\* C19 (parallel fetches, one snapshot): the fetches settle in any order;
\* normalizeAll runs only when all three promises have resolved, and its
\* output holds every record of every source that was fetched, whatever the
\* order of completion: the reviewer's summary, every conversation comment,
\* and the message of every open thread unless the inline fetch failed.
C19_SnapshotAfterAllFetches ==
  /\ pc \in {"fetched", "normalized", "written", "threw"} => (\A s \in Sources : fetchStatus[s] \in {"resolved", "degraded"})
  /\ pc \in {"normalized", "written"} =>
       /\ (ReviewSummaries(dave) # {}) <=> (reviews # <<>>)
       /\ \A i \in DOMAIN issueComments :
            \E k \in DOMAIN comments : comments[k].id = CommentId(issueComments[i].id)
       /\ \A i \in DOMAIN inlineComments :
            (ThreadComments(i) # {})
              <=> (/\ fetchStatus["inlineComments"] = "resolved"
                   /\ ~inlineComments[i].isResolved
                   /\ inlineComments[i].comments # <<>>)

\* C19's case: the fetch listed last has completed while the first two are
\* pending.
C19_Witness ==
  /\ pc = "fetching"
  /\ fetchStatus = [s \in Sources |->
                      IF s = "inlineComments" THEN "resolved" ELSE "pending"]
  /\ reviews # <<>> /\ issueComments # <<>> /\ inlineComments # <<>>

\* The output written after the conversation comments arrived first and the
\* PR view last holds the records of all three sources.
C19_WrittenWitness ==
  /\ pc = "written"
  /\ fetchStatus = [s \in Sources |-> "resolved"]
  /\ Len(comments) = 3

\* The conversation comments whose timestamp is at or before a response of the
\* PR author, and the review verdicts likewise.
ClearedComments ==
  { i \in DOMAIN issueComments :
      \E t \in AuthorActivity : issueComments[i].created_at[1] <= t }

ClearedVerdicts ==
  { i \in DOMAIN reviews :
      /\ reviews[i].submittedAt # None
      /\ \E t \in AuthorActivity : reviews[i].submittedAt[1] <= t }

\* No cleared comment and no cleared verdict is in the output.
NoClearedInOutput ==
  /\ \A i \in ClearedComments :
       \A k \in DOMAIN comments :
         ~(comments[k].kind = "pr_comment"
             /\ comments[k].id = CommentId(issueComments[i].id))
  /\ \A i \in ClearedVerdicts :
       \A k \in DOMAIN comments :
         ~(/\ comments[k].kind = "review_body"
           /\ comments[k].author = reviews[i].author[1]
           /\ comments[k].createdAt = reviews[i].submittedAt)

\* C18 (cleared feedback never resurfaces): while the conversation only grows,
\* a verdict or conversation comment that is at or before a response of the
\* PR author stays so in every later state, and the output of every
\* invocation holds no such verdict or comment.
C18_ClearedNeverResurfaces ==
  /\ [][/\ ClearedComments \subseteq ClearedComments'
        /\ ClearedVerdicts \subseteq ClearedVerdicts']_vars
  /\ [](Done => NoClearedInOutput)

\* C18's case: a reviewer's comment and verdict, then the PR author's inline
\* reply, then a later comment of the reviewer: the invocation after that
\* yields the later comment alone.
C18_Witness ==
  /\ Done
  /\ Len(issueComments) = 2 /\ Len(reviews) = 1 /\ Len(inlineComments) = 1
  /\ issueComments[1].user = Some(dave) /\ issueComments[2].user = Some(dave)
  /\ ClearedComments = {1}
  /\ ClearedVerdicts = {1}
  /\ issueComments[2].created_at[1] > inlineComments[1].comments[1].createdAt[1]
  /\ Len(comments) = 1
  /\ comments[1].id = CommentId(2)

\* The placeholder naming the state of a verdict: `[${review.state}]`.
Placeholder(state) == <<"[", state, "]">>

\* C21 (body of a review summary): the summary written for a reviewer's kept
\* verdict has the verdict's body when the verdict has body text and the
\* placeholder naming its state otherwise, body text being what the discarding
\* rules test: a body with a character that is not whitespace.  A
\* changes-requested verdict whose body is absent, empty or blank is emitted
\* with the placeholder.
C21_SummaryBody ==
  Done =>
    \A a \in Reviewers : \A j \in LatestVerdict(a) : \A k \in ReviewSummaries(a) :
      comments[k].body = IF HasText(reviews[j].body)
                           THEN reviews[j].body[1]
                           ELSE Placeholder(reviews[j].state)

\* The same with a blank body left aside: the body is the verdict's when it has
\* text and the placeholder when it is absent or empty.
C21_SummaryBodyUnlessBlank ==
  Done =>
    \A a \in Reviewers : \A j \in LatestVerdict(a) : \A k \in ReviewSummaries(a) :
      reviews[j].body # Some(blank) =>
        comments[k].body = IF HasText(reviews[j].body)
                             THEN reviews[j].body[1]
                             ELSE Placeholder(reviews[j].state)

\* A changes-requested verdict with a blank body is emitted with that body.
C21_BlankBodyEmitted ==
  /\ Done
  /\ Len(reviews) = 1
  /\ reviews[1].state = "CHANGES_REQUESTED" /\ reviews[1].body = Some(blank)
  /\ Len(comments) = 1
  /\ comments[1].body = blank

\* The outputs of the three normalizers, concatenated in the order of
\* normalizeAll: review summaries, conversation comments, inline comments.
Concatenation ==
  normalizeReviews(reviews, prAuthor, authorLastActivity)
    \o normalizeIssueComments(issueComments, prAuthor, authorLastActivity)
    \o normalizeInlineComments(inlineComments, prAuthor)

\* The effective timestamp of a comment: its instant, or 0 without one.
EffectiveTime(c) == IF c.createdAt = None THEN 0 ELSE c.createdAt[1]

\* The places of the sequence cat that hold the k-th comment of the output.
PlacesOf(cat, k) == { i \in DOMAIN cat : cat[i] = comments[k] }

\* C22 (merge and order): the output is a permutation of the concatenation of
\* the three normalizers' outputs: it has the same length, every comment of
\* the output is one comment of the concatenation and none is dropped or
\* repeated; two comments with equal effective timestamps are in the output
\* in their order of the concatenation.
C22_StablePermutation ==
  Done =>
    LET cat == Concatenation
        place == [k \in DOMAIN comments |-> PlacesOf(cat, k)]
    IN  /\ Len(comments) = Len(cat)
        /\ \A k \in DOMAIN comments : Cardinality(place[k]) = 1
        /\ \A i \in DOMAIN cat : \E k \in DOMAIN comments : i \in place[k]
        /\ \A j \in DOMAIN comments : \A k \in DOMAIN comments :
             (j < k /\ EffectiveTime(comments[j]) = EffectiveTime(comments[k]))
               => \A p \in place[j] : \A q \in place[k] : p < q

\* C22's case: two review summaries, a conversation comment and an inline
\* comment of the same instant are in the output in that order, after the
\* sort moved a comment.
C22_Witness ==
  /\ Done
  /\ Len(comments) = 4
  /\ \A k \in DOMAIN comments : comments[k].createdAt = Some(1)
  /\ comments[1].kind = "review_body" /\ comments[1].author = carol
  /\ comments[2].kind = "review_body" /\ comments[2].author = dave
  /\ comments[3].kind = "pr_comment"
  /\ comments[4].kind = "inline_comment"
  /\ reviews[1].author = Some(carol)

\* C23 (latest-wins before the emptiness rules): when the latest verdict of a
\* reviewer that passes the author, bot and boundary filters has no body text
\* and does not request changes (a bare approval, an empty commented verdict),
\* no review summary is written for the reviewer, whatever the reviewer's
\* earlier verdicts were.
C23_LatestEmptyVerdictSilences ==
  Done =>
    \A a \in Reviewers : \A j \in LatestVerdict(a) :
      (~HasText(reviews[j].body) /\ reviews[j].state # "CHANGES_REQUESTED")
        => ReviewSummaries(a) = {}

\* C23's case: a verdict requesting changes with a body, then a bare approval
\* of the same reviewer: the output is empty.
C23_Witness ==
  /\ Done
  /\ Len(reviews) = 2
  /\ reviews[1].author = Some(dave) /\ reviews[2].author = Some(dave)
  /\ reviews[1].state = "CHANGES_REQUESTED" /\ reviews[1].body = Some(fix)
  /\ reviews[2].state = "APPROVED" /\ reviews[2].body = None
  /\ PassingVerdicts(dave) = {1, 2}
  /\ LatestVerdict(dave) = {2}
  /\ comments = <<>>

\* The same with an empty commented verdict listed first and the earlier
\* comment with a body second.
C23_CommentedWitness ==
  /\ Done
  /\ Len(reviews) = 2
  /\ reviews[1].state = "COMMENTED" /\ reviews[1].body = Some(<<>>)
  /\ reviews[2].state = "COMMENTED" /\ reviews[2].body = Some(fix)
  /\ LatestVerdict(dave) = {1}
  /\ comments = <<>>

====
